---- MODULE Spec2Model ----
(***************************************************************************)
(* MatchIQ chat proxy: the rate limiter and the request handler of the two *)
(* deployment variants of the repository.                                  *)
(*   src/chat.js            the Edge Function (definitions keep its names) *)
(*   src/unnamed/part_000   the Serverless Function (names prefixed sl_)   *)
(* The two deployments are fed the same requests in lockstep: a request    *)
(* that arrives is handed to both handlers at the same Date.now(), and its *)
(* upstream call settles the same way for both.  A handler runs one        *)
(* segment, from one await to the next, per action.                        *)
(***************************************************************************)
EXTENDS Integers, Sequences, FiniteSets, TLC

(***************************************************************************)
(* Bounds.  RATE_LIMIT and RATE_WINDOW are the configuration constants of  *)
(* chat.js:5-6 (20 requests, 3600 s) scaled down so that a window can fill *)
(* and expire inside the explored horizon; every formula below is stated   *)
(* in terms of the names, not of the values.                               *)
(***************************************************************************)
RATE_LIMIT == 3
RATE_WINDOW == 2
MaxNow == 2500
MaxRequests == 4
\* The longer runs of calls of one key, which reach a third window.
MaxBurst == 7
MaxLate == 5000

\* The serverless variant, configured with the same limit and the same
\* window (its RATE_WINDOW is in milliseconds, part_000:4).
sl_RATE_LIMIT == RATE_LIMIT
sl_RATE_WINDOW == RATE_WINDOW * 1000

\* Steps by which Date.now() advances between two events (milliseconds).
TickSizes == {500}

(***************************************************************************)
(* JavaScript values.  A value is a record [t, n, s]: its type tag, its    *)
(* number (numbers; the identity of an array) and its characters           *)
(* (strings).  Strings are sequences of characters or of indivisible       *)
(* fragments, so that the code's string operations can be computed.        *)
(***************************************************************************)
JUndef == [t |-> "undefined", n |-> 0, s |-> << >>]
JNull == [t |-> "null", n |-> 0, s |-> << >>]
JNum(n) == [t |-> "number", n |-> n, s |-> << >>]
JStr(s) == [t |-> "string", n |-> 0, s |-> s]
JArr(id) == [t |-> "array", n |-> id, s |-> << >>]

\* Truthiness, as || and ! read it
Truthy(v) ==
  ~ \/ v.t \in {"undefined", "null"}
    \/ (v.t = "number" /\ v.n = 0)
    \/ (v.t = "string" /\ v.s = << >>)
\* a || b
Or(a, b) == IF Truthy(a) THEN a ELSE b
\* a ?? b
Nullish(a, b) == IF a.t \in {"undefined", "null"} THEN b ELSE a
\* Array.isArray
isArray(v) == v.t = "array"

\* String.prototype.startsWith, on the characters of two strings
startsWith(s, p) == Len(p) <= Len(s) /\ SubSeq(s, 1, Len(p)) = p

\* s.split(",")[0]: the part of s before its first comma
RECURSIVE firstHop(_)
firstHop(s) ==
  IF s = << >> \/ Head(s) = "," THEN << >> ELSE <<Head(s)>> \o firstHop(Tail(s))

\* String.prototype.trim over the one white-space character of the model
RECURSIVE trimStart(_)
trimStart(s) == IF s # << >> /\ Head(s) = " " THEN trimStart(Tail(s)) ELSE s
RECURSIVE trimEnd(_)
trimEnd(s) ==
  IF s # << >> /\ s[Len(s)] = " " THEN trimEnd(SubSeq(s, 1, Len(s) - 1)) ELSE s
trim(s) == trimEnd(trimStart(s))

\* rateLimitMap.get(key) of a key that has no record (a record's count is
\* at least 1)
NoRecord == [windowStart |-> 0, count |-> 0]
sl_NoRecord == [start |-> 0, count |-> 0]

\* Math.ceil(x / d) for d > 0
Ceil(x, d) == (x + d - 1) \div d

(***************************************************************************)
(* The rate limiter of chat.js.                                            *)
(***************************************************************************)
\* A window that is over only once the limit is no longer reached: the
\* test of line 27 made before that of line 22.
windowOver_afterLimit(record, t) ==
  \/ record = NoRecord
  \/ (t - record.windowStart > RATE_WINDOW * 1000 /\ record.count < RATE_LIMIT)

\* A window measured in the unit of the constant, seconds, against
\* Date.now(), which is in milliseconds.
windowOver_inSeconds(record, t) ==
  record = NoRecord \/ t - record.windowStart > RATE_WINDOW

\* The test of line 22: no record, or the window is over.
windowOver(record, t) ==
  record = NoRecord \/ t - record.windowStart > RATE_WINDOW * 1000

\* checkRateLimit that computes remaining before it increments the count.
checkRateLimit_staleRemaining(m, key, t) ==
  LET record == m[key] IN
  IF windowOver(record, t)
  THEN [map |-> [m EXCEPT ![key] = [windowStart |-> t, count |-> 1]],
        result |-> [allowed |-> TRUE, remaining |-> RATE_LIMIT - 1,
                    resetIn |-> JUndef]]
  ELSE IF record.count >= RATE_LIMIT
  THEN [map |-> m,
        result |-> [allowed |-> FALSE, remaining |-> 0,
                    resetIn |->
                      JNum(Ceil(record.windowStart + RATE_WINDOW * 1000 - t, 1000))]]
  ELSE [map |-> [m EXCEPT ![key].count = record.count + 1],
        result |-> [allowed |-> TRUE,
                    remaining |-> RATE_LIMIT - record.count,
                    resetIn |-> JUndef]]

\* checkRateLimit that counts the call before it tests the limit.
checkRateLimit_countsDenied(m, key, t) ==
  LET record == m[key] IN
  IF windowOver(record, t)
  THEN [map |-> [m EXCEPT ![key] = [windowStart |-> t, count |-> 1]],
        result |-> [allowed |-> TRUE, remaining |-> RATE_LIMIT - 1,
                    resetIn |-> JUndef]]
  ELSE IF record.count + 1 > RATE_LIMIT
  THEN [map |-> [m EXCEPT ![key].count = record.count + 1],
        result |-> [allowed |-> FALSE, remaining |-> 0,
                    resetIn |->
                      JNum(Ceil(record.windowStart + RATE_WINDOW * 1000 - t, 1000))]]
  ELSE [map |-> [m EXCEPT ![key].count = record.count + 1],
        result |-> [allowed |-> TRUE,
                    remaining |-> RATE_LIMIT - (record.count + 1),
                    resetIn |-> JUndef]]

\* checkRateLimit whose denial restarts the window of the key.
checkRateLimit_denialExtends(m, key, t) ==
  LET record == m[key] IN
  IF windowOver(record, t)
  THEN [map |-> [m EXCEPT ![key] = [windowStart |-> t, count |-> 1]],
        result |-> [allowed |-> TRUE, remaining |-> RATE_LIMIT - 1,
                    resetIn |-> JUndef]]
  ELSE IF record.count >= RATE_LIMIT
  THEN [map |-> [m EXCEPT ![key].windowStart = t],
        result |-> [allowed |-> FALSE, remaining |-> 0,
                    resetIn |->
                      JNum(Ceil(record.windowStart + RATE_WINDOW * 1000 - t, 1000))]]
  ELSE [map |-> [m EXCEPT ![key].count = record.count + 1],
        result |-> [allowed |-> TRUE,
                    remaining |-> RATE_LIMIT - (record.count + 1),
                    resetIn |-> JUndef]]

\* checkRateLimit(key) called at Date.now() = t on map m: the map it leaves
\* and the object it returns.
checkRateLimit(m, key, t) ==
  LET record == m[key] IN
  IF windowOver(record, t)
  THEN [map |-> [m EXCEPT ![key] = [windowStart |-> t, count |-> 1]],
        result |-> [allowed |-> TRUE, remaining |-> RATE_LIMIT - 1,
                    resetIn |-> JUndef]]
  ELSE IF record.count >= RATE_LIMIT
  THEN [map |-> m,
        result |-> [allowed |-> FALSE, remaining |-> 0,
                    resetIn |->
                      JNum(Ceil(record.windowStart + RATE_WINDOW * 1000 - t, 1000))]]
  ELSE [map |-> [m EXCEPT ![key].count = record.count + 1],
        result |-> [allowed |-> TRUE,
                    remaining |-> RATE_LIMIT - (record.count + 1),
                    resetIn |-> JUndef]]

(***************************************************************************)
(* The rate limiter of part_000.                                           *)
(***************************************************************************)
sl_windowOver(record, t) ==
  record = sl_NoRecord \/ t - record.start > sl_RATE_WINDOW

sl_checkRateLimit(m, ip, t) ==
  LET record == m[ip] IN
  IF sl_windowOver(record, t)
  THEN [map |-> [m EXCEPT ![ip] = [start |-> t, count |-> 1]], result |-> TRUE]
  ELSE IF record.count >= sl_RATE_LIMIT
  THEN [map |-> m, result |-> FALSE]
  ELSE [map |-> [m EXCEPT ![ip].count = record.count + 1], result |-> TRUE]

(***************************************************************************)
(* Requests, responses and the upstream service.                           *)
(***************************************************************************)
\* The CORS headers of a response and its other headers.
Headers(allowOrigin, maxAge, contentType, retryAfter) ==
  [allowOrigin |-> allowOrigin, allowMethods |-> "POST, OPTIONS",
   allowHeaders |-> "Content-Type", maxAge |-> maxAge,
   contentType |-> contentType, retryAfter |-> retryAfter]

\* Response bodies: none (null), or the JSON object with the fields given
\* (a field that is undefined is left out by JSON.stringify).
NoBody == [json |-> FALSE, error |-> JUndef, content |-> JUndef,
           remaining |-> JUndef, resetIn |-> JUndef]
ErrorBody(msg) == [NoBody EXCEPT !.json = TRUE, !.error = msg]

Response(status, headers, body) ==
  [status |-> status, headers |-> headers, body |-> body]

\* The body of the upstream call (JSON.stringify of the object literal) and
\* its Authorization header.
NoCall == [issued |-> FALSE, authorization |-> << >>, model |-> JUndef,
           messages |-> JUndef, max_tokens |-> JUndef, temperature |-> JUndef]
Call(key, model, messages, max_tokens, temperature) ==
  [issued |-> TRUE, authorization |-> <<"Bearer ">> \o key.s, model |-> model,
   messages |-> messages, max_tokens |-> max_tokens, temperature |-> temperature]

\* openaiRes.ok
ok(status) == 200 <= status /\ status <= 299

\* err.error?.message of a parsed upstream body
errorMessage(ubody) ==
  IF ubody.error.t = "object" THEN ubody.error.message ELSE JUndef

\* data.choices[0].message.content throws a TypeError unless data is an
\* object whose choices has a first element that has a message.
contentThrows(ubody) ==
  \/ ubody.json # "object"
  \/ ~ubody.choices.present
  \/ ubody.choices.items = << >>
  \/ ~ubody.choices.items[1].hasMessage

firstContent(ubody) == ubody.choices.items[1].content

(***************************************************************************)
(* The handler of chat.js, one operator per segment between two awaits.    *)
(* A handler in flight is a record: pc is the await it is suspended at     *)
(* ("json", "fetch"), "done" once it has returned a Response and "threw"   *)
(* once it has ended with an uncaught exception; sent is the sequence of   *)
(* responses it has produced.                                              *)
(***************************************************************************)
NoRateCheck == [allowed |-> FALSE, remaining |-> 0, resetIn |-> JUndef]
Idle == [pc |-> "idle", cors |-> << >>, rateCheck |-> NoRateCheck,
         call |-> NoCall, calls |-> 0, sent |-> << >>]

allowedOrigins == {<<"https://www.propertyfinder.ae">>, <<"chrome-extension://">>}

\* req.headers.get(name): null when the header is missing
get(header) == IF header.t = "undefined" THEN JNull ELSE header

\* lines 38-46: the value of Access-Control-Allow-Origin
allowOrigin(req) ==
  LET origin == Or(get(req.origin), JStr(<< >>)).s
      isAllowed == \E o \in allowedOrigins : startsWith(origin, o)
  IN IF isAllowed THEN origin ELSE <<"https://www.propertyfinder.ae">>

corsHeaders(req, contentType, retryAfter) ==
  Headers(allowOrigin(req), JStr(<<"86400">>), contentType, retryAfter)

jsonHeaders(cors) ==
  Headers(cors, JStr(<<"86400">>), JStr(<<"application/json">>), JUndef)

\* lines 12-16.  x?.split(",")[0]?.trim() is undefined when the header is
\* missing.
getRateLimitKey(req) ==
  LET xff == get(req.xff)
      first == IF xff.t = "null" THEN JUndef ELSE JStr(trim(firstHop(xff.s)))
  IN Or(Or(first, get(req.realip)), JStr(<<"unknown">>)).s

Returned(h, response) == [h EXCEPT !.pc = "done", !.sent = @ \o <<response>>]
Threw(h) == [h EXCEPT !.pc = "threw"]

\* lines 52-55: the answer to a preflight
preflight(req) ==
  Returned([Idle EXCEPT !.cors = allowOrigin(req)],
           Response(204, corsHeaders(req, JUndef, JUndef), NoBody))

\* lines 57-62: the answer to a method that is neither OPTIONS nor POST
methodNotAllowed(req) ==
  Returned([Idle EXCEPT !.cors = allowOrigin(req)],
           Response(405, jsonHeaders(allowOrigin(req)),
                    ErrorBody(JStr(<<"Method not allowed">>))))

\* lines 64-85: the rate limit check of a request, then its 429 or its
\* suspension at await req.json()
limited(req, m, t) ==
  LET rl == checkRateLimit(m, getRateLimitKey(req), t)
      rateCheck == rl.result
      h == [Idle EXCEPT !.cors = allowOrigin(req), !.rateCheck = rateCheck]
  IN [map |-> rl.map,
      h |-> IF ~rateCheck.allowed
            THEN Returned(h,
                   Response(429,
                     corsHeaders(req, JStr(<<"application/json">>),
                                 JStr(<<ToString(rateCheck.resetIn.n)>>)),
                     [ErrorBody(JStr(<<"Rate limited. Try again in ",
                                       ToString(rateCheck.resetIn.n), "s.">>))
                        EXCEPT !.resetIn = rateCheck.resetIn]))
            ELSE [h EXCEPT !.pc = "json"]]

\* A preflight that is rate limited like a POST.
handlerStart_limitsPreflight(req, m, t) ==
  IF req.method \notin {"OPTIONS", "POST"}
  THEN [map |-> m, h |-> methodNotAllowed(req)]
  ELSE IF req.method = "OPTIONS" /\ limited(req, m, t).h.pc = "json"
  THEN [map |-> limited(req, m, t).map, h |-> preflight(req)]
  ELSE limited(req, m, t)

\* A handler that checks the rate limit before it looks at the method.
handlerStart_limitsEveryMethod(req, m, t) ==
  IF req.method = "OPTIONS" THEN [map |-> m, h |-> preflight(req)]
  ELSE IF req.method # "POST" /\ limited(req, m, t).h.pc = "json"
  THEN [map |-> limited(req, m, t).map, h |-> methodNotAllowed(req)]
  ELSE limited(req, m, t)

\* lines 36-85: from the call of the handler to await req.json().
handlerStart(req, m, t) ==
  IF req.method = "OPTIONS" THEN [map |-> m, h |-> preflight(req)]
  ELSE IF req.method # "POST" THEN [map |-> m, h |-> methodNotAllowed(req)]
  ELSE limited(req, m, t)

\* lines 83-123: from the end of await req.json() to await fetch(...).
\* env is process.env.OPENAI_API_KEY.
handlerParsed(h, req, env) ==
  LET body == req.body IN
  IF body.json = "invalid"
  THEN Returned(h, Response(400, jsonHeaders(h.cors), ErrorBody(JStr(<<"Invalid JSON">>))))
  ELSE IF body.json = "null"
  THEN Threw(h)          \* body.messages of null: TypeError, outside any try
  ELSE IF ~isArray(body.messages)
  THEN Returned(h, Response(400, jsonHeaders(h.cors),
                            ErrorBody(JStr(<<"messages array required">>))))
  ELSE IF ~Truthy(env)
  THEN Returned(h, Response(500, jsonHeaders(h.cors),
                            ErrorBody(JStr(<<"Server misconfigured">>))))
  ELSE [h EXCEPT !.pc = "fetch", !.calls = @ + 1,
                 !.call = Call(env,
                               Or(body.model, JStr(<<"gpt-4o-mini">>)),
                               body.messages,
                               Or(body.max_tokens, JNum(1500)),
                               Nullish(body.temperature, JNum(85)))]

\* A catch that passes the failure on as a 500.
unreachable_as500(h) ==
  Returned(h, Response(500, jsonHeaders(h.cors),
                       ErrorBody(JStr(<<"fetch failed">>))))

\* The catch of lines 145-150.
unreachable(h) ==
  Returned(h, Response(502, jsonHeaders(h.cors),
                       ErrorBody(JStr(<<"Failed to reach AI service">>))))

\* An upstream error reported together with the request that caused it.
upstreamError_echoesCall(h, u) ==
  IF u.body.json = "null"
  THEN unreachable(h)
  ELSE LET message == IF u.body.json = "invalid" THEN JUndef
                      ELSE errorMessage(u.body)
       IN Returned(h, Response(u.status, jsonHeaders(h.cors),
                     ErrorBody(Or(message,
                                  JStr(<<"OpenAI error: ", ToString(u.status), " for ">>
                                         \o h.call.authorization)))))

\* lines 125-133: the upstream answered with a status that is not ok.
upstreamError(h, u) ==
  IF u.body.json = "null"
  THEN unreachable(h)    \* err.error of null: TypeError, caught at line 145
  ELSE LET message == IF u.body.json = "invalid" THEN JUndef  \* .catch(() => ({}))
                      ELSE errorMessage(u.body)
       IN Returned(h, Response(u.status, jsonHeaders(h.cors),
                     ErrorBody(Or(message,
                                  JStr(<<"OpenAI error: ", ToString(u.status)>>)))))

\* A success that reports the quota left after one more request.
upstreamSuccess_remainingLessOne(h, u) ==
  IF u.body.json = "invalid" \/ contentThrows(u.body)
  THEN unreachable(h)
  ELSE Returned(h, Response(200, jsonHeaders(h.cors),
                  [NoBody EXCEPT !.json = TRUE, !.content = firstContent(u.body),
                                 !.remaining = JNum(h.rateCheck.remaining - 1)]))

\* lines 135-143: the upstream answered ok.
upstreamSuccess(h, u) ==
  IF u.body.json = "invalid" \/ contentThrows(u.body)
  THEN unreachable(h)
  ELSE Returned(h, Response(200, jsonHeaders(h.cors),
                  [NoBody EXCEPT !.json = TRUE, !.content = firstContent(u.body),
                                 !.remaining = JNum(h.rateCheck.remaining)]))

\* A handler that calls the upstream once more when fetch(...) rejects.
handlerUpstream_retries(h, u) ==
  IF u.kind = "reject"
  THEN IF h.calls < 2 THEN [h EXCEPT !.calls = @ + 1] ELSE unreachable(h)
  ELSE IF ~ok(u.status) THEN upstreamError(h, u)
  ELSE upstreamSuccess(h, u)

\* lines 110-150: from the settling of fetch(...) to the return; u is what
\* the upstream did.
handlerUpstream(h, u) ==
  IF u.kind = "reject" THEN unreachable(h)
  ELSE IF ~ok(u.status) THEN upstreamError(h, u)
  ELSE upstreamSuccess(h, u)

(***************************************************************************)
(* The handler of part_000.  res.setHeader sets the three CORS headers     *)
(* before anything else; res.status(..).json(..) and res.status(..).end()  *)
(* send the response.                                                      *)
(***************************************************************************)
sl_headers == Headers(<<"*">>, JUndef, JUndef, JUndef)

sl_Idle == [Idle EXCEPT !.cors = <<"*">>]

sl_json(h, status, body) == Returned(h, Response(status, sl_headers, body))

\* line 35: req.headers[..] is undefined when the header is missing
sl_ip(req) == trim(firstHop(Or(req.xff, JStr(<<"unknown">>)).s))

\* line 41: the fields destructured from req.body || {}.  req.body is the
\* payload as the host parsed it: a payload that is no JSON gives it
\* undefined, and a primitive has none of the three fields.
sl_fields(req) ==
  IF req.body.json = "object" THEN req.body
  ELSE [req.body EXCEPT !.messages = JUndef, !.max_tokens = JUndef,
                        !.temperature = JUndef]

\* lines 19-66: from the call of the handler to await fetch(...).
sl_handlerStart(req, m, t, env) ==
  LET rl == sl_checkRateLimit(m, sl_ip(req), t)
      f == sl_fields(req)
  IN IF req.method = "OPTIONS"
     THEN [map |-> m, h |-> Returned(sl_Idle, Response(204, sl_headers, NoBody))]
     ELSE IF req.method # "POST"
     THEN [map |-> m,
           h |-> sl_json(sl_Idle, 405, ErrorBody(JStr(<<"Method not allowed">>)))]
     ELSE IF ~rl.result
     THEN [map |-> rl.map,
           h |-> sl_json(sl_Idle, 429,
                         ErrorBody(JStr(<<"Rate limited. Try again later.">>)))]
     ELSE IF ~isArray(f.messages)
     THEN [map |-> rl.map,
           h |-> sl_json(sl_Idle, 400,
                         ErrorBody(JStr(<<"messages array required">>)))]
     ELSE IF ~Truthy(env)
     THEN [map |-> rl.map,
           h |-> sl_json(sl_Idle, 500, ErrorBody(JStr(<<"Server misconfigured">>)))]
     ELSE [map |-> rl.map,
           h |-> [sl_Idle EXCEPT
                    !.pc = "fetch", !.calls = @ + 1,
                    !.call = Call(env, JStr(<<"gpt-4o-mini">>), f.messages,
                                  Or(f.max_tokens, JNum(2500)),
                                  Nullish(f.temperature, JNum(85)))]]

\* The catch of lines 79-81.
sl_unreachable(h) ==
  sl_json(h, 502, ErrorBody(JStr(<<"Failed to reach AI service">>)))

\* lines 68-73
sl_upstreamError(h, u) ==
  IF u.body.json = "null"
  THEN sl_unreachable(h)
  ELSE LET message == IF u.body.json = "invalid" THEN JUndef
                      ELSE errorMessage(u.body)
       IN sl_json(h, u.status, ErrorBody(Or(message, JStr(<<"OpenAI error">>))))

\* lines 75-78
sl_upstreamSuccess(h, u) ==
  IF u.body.json = "invalid" \/ contentThrows(u.body)
  THEN sl_unreachable(h)
  ELSE sl_json(h, 200, [NoBody EXCEPT !.json = TRUE,
                                      !.content = firstContent(u.body)])

\* lines 53-81: from the settling of fetch(...) to the return.
sl_handlerUpstream(h, u) ==
  IF u.kind = "reject" THEN sl_unreachable(h)
  ELSE IF ~ok(u.status) THEN sl_upstreamError(h, u)
  ELSE sl_upstreamSuccess(h, u)

(***************************************************************************)
(* The inputs explored.                                                    *)
(***************************************************************************)
\* Origin: missing, the allow-listed site, a site whose name extends it, an
\* extension, another site
BaseOrigin == JStr(<<"https://www.propertyfinder.ae">>)
Origins == {JUndef,
            BaseOrigin,
            JStr(<<"https://www.propertyfinder.ae", ".evil.example">>),
            JStr(<<"chrome-extension://", "abcdef">>),
            JStr(<<"https://evil.example">>)}

\* x-forwarded-for and x-real-ip: two hops with a blank, of which the first
\* is the key; or a blank first hop, and x-real-ip
BaseXff == JStr(<<"a", " ", ",", "b">>)
KeyHeaders ==
  {<<BaseXff, JUndef>>,
   <<JStr(<<" ", ",", "a">>), JStr(<<"b">>)>>}

\* Payloads: json is what JSON.parse makes of the payload ("invalid": it
\* throws); the four fields are those of a payload that is an object.
Payload(json, messages, model, max_tokens, temperature) ==
  [json |-> json, messages |-> messages, model |-> model,
   max_tokens |-> max_tokens, temperature |-> temperature]
NoPayload == Payload("invalid", JUndef, JUndef, JUndef, JUndef)
NoMessages == Payload("object", JUndef, JStr(<<"gpt-4o">>), JNum(100), JNum(100))
BasePayload == Payload("object", JArr(1), JUndef, JUndef, JUndef)
Payloads ==
  {NoPayload,
   Payload("null", JUndef, JUndef, JUndef, JUndef),
   Payload("primitive", JUndef, JUndef, JUndef, JUndef),
   NoMessages,
   Payload("object", JStr(<<"hi">>), JUndef, JUndef, JUndef),
   BasePayload,
   Payload("object", JArr(1), JStr(<<"gpt-4o">>), JNum(100), JNum(100)),
   Payload("object", JArr(2), JStr(<< >>), JNum(0), JNum(0))}

Request(method, xff, realip, origin, body) ==
  [method |-> method, xff |-> xff, realip |-> realip, origin |-> origin,
   body |-> body]

\* The requests explored: the preflight and a POST without messages from
\* every Origin, a GET, a POST of every payload, and a POST with every
\* combination of the headers the key is read from.
Requests ==
  {Request(m, BaseXff, JUndef, o, IF m = "POST" THEN NoMessages ELSE NoPayload) :
     m \in {"OPTIONS", "POST"}, o \in Origins}
  \cup {Request("GET", BaseXff, JUndef, BaseOrigin, NoPayload)}
  \cup {Request("POST", BaseXff, JUndef, BaseOrigin, b) : b \in Payloads}
  \cup {Request("POST", k[1], k[2], BaseOrigin, NoMessages) : k \in KeyHeaders}

\* What the upstream does with a call: fetch rejects, or it resolves with a
\* status and a body.  error is the body's error field, choices its choices.
NoError == [t |-> "absent", message |-> JUndef]
NoChoices == [present |-> FALSE, items |-> << >>]
Choices(items) == [present |-> TRUE, items |-> items]
UBody(json, error, choices) == [json |-> json, error |-> error, choices |-> choices]
Settled(kind, status, body) == [kind |-> kind, status |-> status, body |-> body]
Pending == Settled("pending", 0, UBody("invalid", NoError, NoChoices))
ErrorBodies ==
  {UBody("invalid", NoError, NoChoices),
   UBody("null", NoError, NoChoices),
   UBody("object", NoError, NoChoices),
   UBody("object", [t |-> "string", message |-> JUndef], NoChoices),
   UBody("object", [t |-> "object", message |-> JStr(<<"quota exceeded">>)], NoChoices)}
SuccessBodies ==
  {UBody("invalid", NoError, NoChoices),
   UBody("null", NoError, NoChoices),
   UBody("object", NoError, NoChoices),
   UBody("object", NoError, Choices(<< >>)),
   UBody("object", NoError, Choices(<<[hasMessage |-> FALSE, content |-> JUndef]>>)),
   UBody("object", NoError, Choices(<<[hasMessage |-> TRUE, content |-> JStr(<<"hello">>)]>>))}
Outcomes ==
  {Settled("reject", 0, UBody("invalid", NoError, NoChoices))}
  \cup {Settled("response", 200, b) : b \in SuccessBodies}
  \cup {Settled("response", st, b) : st \in {429, 500}, b \in ErrorBodies}

\* process.env.OPENAI_API_KEY: not set, or the secret
Credentials == {JUndef, JStr(<<"sk-A">>)}

\* The keys of the two maps
Keys ==
  {getRateLimitKey(r) : r \in Requests} \cup {sl_ip(r) : r \in Requests}

\* The handlers that can be in flight at once
Slots == {1}

(***************************************************************************)
(* The state.                                                              *)
(***************************************************************************)
VARIABLES
  now,              \* Date.now()
  env,              \* process.env.OPENAI_API_KEY
  rateLimitMap,     \* chat.js:10
  sl_rateLimitMap,  \* part_000:5
  reqs,             \* the request each slot was last given
  ups,              \* what the upstream does with the request of each slot
  edge,             \* the chat.js handler of each slot
  sl,               \* the part_000 handler of each slot
  arrived,          \* the number of requests so far
  log               \* the calls of checkRateLimit so far, when they are recorded

vars == <<now, env, rateLimitMap, sl_rateLimitMap, reqs, ups, edge, sl, arrived,
          log>>

NoRequest == [id |-> 0, method |-> "none", xff |-> JUndef, realip |-> JUndef,
              origin |-> JUndef, body |-> NoPayload]

\* The state after the module is loaded, with the given slots for handlers.
Loaded(slots) ==
  /\ now = 0
  /\ env \in Credentials
  /\ rateLimitMap = [k \in Keys |-> NoRecord]
  /\ sl_rateLimitMap = [k \in Keys |-> sl_NoRecord]
  /\ reqs = [s \in slots |-> NoRequest]
  /\ ups = [s \in slots |-> Pending]
  /\ edge = [s \in slots |-> Idle]
  /\ sl = [s \in slots |-> sl_Idle]
  /\ arrived = 0
  /\ log = << >>

Init == Loaded(Slots)

Running(h) == h.pc \in {"json", "fetch"}

\* Time passes, up to max.
Elapse(max) ==
  /\ \E d \in TickSizes : now + d <= max /\ now' = now + d
  /\ UNCHANGED <<env, rateLimitMap, sl_rateLimitMap, reqs, ups, edge, sl, arrived,
                 log>>

Tick == Elapse(MaxNow)

\* What log keeps of the calls checkRateLimit(key) of chat.js and
\* checkRateLimit(ip) of part_000 that a POST arriving now makes.
Checked(req) ==
  [key |-> getRateLimitKey(req), t |-> now,
   allowed |-> checkRateLimit(rateLimitMap, getRateLimitKey(req), now).result.allowed,
   resetIn |-> checkRateLimit(rateLimitMap, getRateLimitKey(req), now).result.resetIn,
   sl_ip |-> sl_ip(req),
   sl_allowed |-> sl_checkRateLimit(sl_rateLimitMap, sl_ip(req), now).result]

\* A request arrives at a free slot and both handlers run to their first
\* await (or to their return).  id numbers the requests in arrival order;
\* max bounds their number, and recorded tells whether log keeps the calls
\* of checkRateLimit.
Arrival(s, req, max, recorded) ==
  /\ arrived < max
  /\ ~Running(edge[s]) /\ ~Running(sl[s])
  /\ LET e == handlerStart(req, rateLimitMap, now)
         n == sl_handlerStart(req, sl_rateLimitMap, now, env)
     IN /\ rateLimitMap' = e.map
        /\ sl_rateLimitMap' = n.map
        /\ edge' = [edge EXCEPT ![s] = e.h]
        /\ sl' = [sl EXCEPT ![s] = n.h]
  /\ reqs' = [reqs EXCEPT ![s] = [id |-> arrived + 1] @@ req]
  /\ ups' = [ups EXCEPT ![s] = Pending]
  /\ arrived' = arrived + 1
  /\ log' = IF recorded /\ req.method = "POST" THEN Append(log, Checked(req))
            ELSE log
  /\ UNCHANGED <<now, env>>

Arrive(s, req) == Arrival(s, req, MaxRequests, FALSE)

\* await req.json() ends in chat.js.
BodyParsed(s) ==
  /\ edge[s].pc = "json"
  /\ edge' = [edge EXCEPT ![s] = handlerParsed(edge[s], reqs[s], env)]
  /\ UNCHANGED <<now, env, rateLimitMap, sl_rateLimitMap, reqs, ups, sl, arrived,
                 log>>

\* The upstream call of the request of slot s settles as u: await fetch(...)
\* ends in each handler that is suspended there, and the handler reads the
\* body of the answer and returns.
UpstreamSettled(s, u) ==
  /\ edge[s].pc # "json"
  /\ edge[s].pc = "fetch" \/ sl[s].pc = "fetch"
  /\ ups' = [ups EXCEPT ![s] = u]
  /\ edge' = [edge EXCEPT ![s] =
                IF @.pc = "fetch" THEN handlerUpstream(@, u) ELSE @]
  /\ sl' = [sl EXCEPT ![s] =
              IF @.pc = "fetch" THEN sl_handlerUpstream(@, u) ELSE @]
  /\ UNCHANGED <<now, env, rateLimitMap, sl_rateLimitMap, reqs, arrived, log>>

Next ==
  \/ Tick
  \/ \E s \in Slots, req \in Requests : Arrive(s, req)
  \/ \E s \in Slots : BodyParsed(s)
  \/ \E s \in Slots, u \in Outcomes : UpstreamSettled(s, u)

Spec == Init /\ [][Next]_vars

(***************************************************************************)
(* The rate limiter on a long run of calls of one key: POSTs of one client *)
(* arrive over a horizon that reaches a third window, and log keeps every  *)
(* call of checkRateLimit.  The POSTs carry no messages and end with 400.  *)
(***************************************************************************)
RateRequests == {Request("POST", BaseXff, JUndef, BaseOrigin, NoMessages)}

Late == Elapse(MaxLate)

ArriveRecorded(s, req) == Arrival(s, req, MaxBurst, TRUE)

RateNext ==
  \/ Late
  \/ \E s \in Slots, req \in RateRequests : ArriveRecorded(s, req)
  \/ \E s \in Slots : BodyParsed(s)

\* These POSTs end before the credential is read: one configuration is enough.
RateInit == Init /\ Truthy(env)

RateSpec == RateInit /\ [][RateNext]_vars

(***************************************************************************)
(* The rate limiter on the calls of two clients: POSTs without messages    *)
(* under either key, one more of them than a window allows to one key.     *)
(***************************************************************************)
KeyRequests ==
  {Request("POST", k[1], k[2], BaseOrigin, NoMessages) : k \in KeyHeaders}

ArriveKeyed(s, req) == Arrival(s, req, MaxRequests + 1, FALSE)

KeysNext ==
  \/ Tick
  \/ \E s \in Slots, req \in KeyRequests : ArriveKeyed(s, req)
  \/ \E s \in Slots : BodyParsed(s)

KeysSpec == RateInit /\ [][KeysNext]_vars

(***************************************************************************)
(* Requests in flight at once: two handlers of each variant, given POSTs   *)
(* of one client that reach the upstream call, suspend at their awaits and *)
(* resume in any order; log keeps every call of checkRateLimit.            *)
(***************************************************************************)
ConcSlots == {1, 2}

ConcRequests == {Request("POST", BaseXff, JUndef, BaseOrigin, BasePayload)}

ConcOutcomes ==
  {Settled("reject", 0, UBody("invalid", NoError, NoChoices)),
   Settled("response", 200,
           UBody("object", NoError,
                 Choices(<<[hasMessage |-> TRUE, content |-> JStr(<<"hello">>)]>>)))}

ArriveConcurrent(s, req) == Arrival(s, req, MaxRequests + 1, TRUE)

ConcInit == Loaded(ConcSlots) /\ Truthy(env)

ConcNext ==
  \/ Tick
  \/ \E s \in ConcSlots, req \in ConcRequests : ArriveConcurrent(s, req)
  \/ \E s \in ConcSlots : BodyParsed(s)
  \/ \E s \in ConcSlots, u \in ConcOutcomes : UpstreamSettled(s, u)

ConcSpec == ConcInit /\ [][ConcNext]_vars

(***************************************************************************)
(* What the properties below read off a state.                             *)
(***************************************************************************)
\* The step is the arrival of a POST at slot s.
PostArrives(s) ==
  arrived' = arrived + 1 /\ reqs'[s].id = arrived' /\ reqs'[s].method = "POST"

\* The handler has ended: it returned, or it threw.
Ended(h) == h.pc \in {"done", "threw"}

\* The handler has answered once, with status st.
Answered(h, st) == h.pc = "done" /\ Len(h.sent) = 1 /\ h.sent[1].status = st

\* The payload was parsed and has no array-valued messages.
LacksMessages(body) ==
  body.json \in {"null", "primitive"}
    \/ (body.json = "object" /\ ~isArray(body.messages))

(***************************************************************************)
(* C1.  Inside an unexpired window, a call of checkRateLimit(key) made     *)
(* while the key's count is below the limit is allowed, and remaining is   *)
(* RATE_LIMIT - 1 on the first call of a window and one less than what the *)
(* previous allowed call of the key returned on each further call, down to *)
(* 0 on the RATE_LIMIT-th call.                                            *)
(***************************************************************************)
C1_AllowedUnderLimit ==
  [][\A s \in DOMAIN edge :
       PostArrives(s) =>
         /\ \* the first call of a window
            (rateLimitMap'[getRateLimitKey(reqs'[s])]
               = [windowStart |-> now, count |-> 1])
              => /\ edge'[s].rateCheck.allowed
                 /\ edge'[s].rateCheck.remaining = RATE_LIMIT - 1
         /\ \* a further call while the count is below the limit
            ( /\ rateLimitMap[getRateLimitKey(reqs'[s])] # NoRecord
              /\ now - rateLimitMap[getRateLimitKey(reqs'[s])].windowStart
                   <= RATE_WINDOW * 1000
              /\ rateLimitMap[getRateLimitKey(reqs'[s])].count < RATE_LIMIT )
              => /\ edge'[s].rateCheck.allowed
                 /\ edge'[s].rateCheck.remaining
                      = RATE_LIMIT
                          - (rateLimitMap[getRateLimitKey(reqs'[s])].count + 1)
                 /\ edge'[s].rateCheck.remaining >= 0
                 /\ \* the call before it was the previous call of the key
                    ( /\ reqs[s].method = "POST"
                      /\ getRateLimitKey(reqs[s]) = getRateLimitKey(reqs'[s])
                      /\ edge[s].rateCheck.allowed )
                      => edge'[s].rateCheck.remaining
                           = edge[s].rateCheck.remaining - 1
    ]_vars

\* The RATE_LIMIT-th call of a window has been allowed with remaining = 0,
\* right after another allowed call of the same key.
C1_Witness ==
  \E s \in DOMAIN edge :
    /\ reqs[s].method = "POST"
    /\ edge[s].rateCheck.allowed
    /\ edge[s].rateCheck.remaining = 0
    /\ rateLimitMap[getRateLimitKey(reqs[s])].count = RATE_LIMIT

(***************************************************************************)
(* C2.  A call of checkRateLimit(key) made when the key's count has        *)
(* reached the limit and the window is unexpired, the instant              *)
(* now = windowStart + window duration included, returns allowed = false   *)
(* and a resetIn that is strictly positive.                                *)
(***************************************************************************)
C2_DeniedWithPositiveResetIn ==
  [][\A s \in DOMAIN edge :
       ( /\ PostArrives(s)
         /\ rateLimitMap[getRateLimitKey(reqs'[s])] # NoRecord
         /\ now - rateLimitMap[getRateLimitKey(reqs'[s])].windowStart
              <= RATE_WINDOW * 1000
         /\ rateLimitMap[getRateLimitKey(reqs'[s])].count >= RATE_LIMIT )
         => /\ ~edge'[s].rateCheck.allowed
            /\ edge'[s].rateCheck.resetIn.t = "number"
            /\ edge'[s].rateCheck.resetIn.n > 0
    ]_vars

(***************************************************************************)
(* C3.  When a key has a record, whatever its count, and more than the     *)
(* window duration has passed since the record's window start, the next    *)
(* call of checkRateLimit(key) replaces the record by one with window      *)
(* start = now and count = 1 and is allowed, in both variants.             *)
(***************************************************************************)
C3_ExpiredWindowResets ==
  [][\A s \in DOMAIN edge :
       PostArrives(s) =>
         /\ ( /\ rateLimitMap[getRateLimitKey(reqs'[s])] # NoRecord
              /\ now - rateLimitMap[getRateLimitKey(reqs'[s])].windowStart
                   > RATE_WINDOW * 1000 )
              => /\ rateLimitMap'[getRateLimitKey(reqs'[s])]
                      = [windowStart |-> now, count |-> 1]
                 /\ edge'[s].rateCheck.allowed
                 /\ ~Answered(edge'[s], 429)
         /\ ( /\ sl_rateLimitMap[sl_ip(reqs'[s])] # sl_NoRecord
              /\ now - sl_rateLimitMap[sl_ip(reqs'[s])].start > sl_RATE_WINDOW )
              => /\ sl_rateLimitMap'[sl_ip(reqs'[s])] = [start |-> now, count |-> 1]
                 /\ ~Answered(sl'[s], 429)
    ]_vars

\* A key that had used up its window has a fresh record: every request so
\* far was a POST of this key, one more than the limit, and the record
\* counts 1 from now.
C3_Witness ==
  \E s \in DOMAIN edge :
    /\ reqs[s].method = "POST"
    /\ arrived = RATE_LIMIT + 1
    /\ now > RATE_WINDOW * 1000
    /\ rateLimitMap[getRateLimitKey(reqs[s])] = [windowStart |-> now, count |-> 1]
    /\ sl_rateLimitMap[sl_ip(reqs[s])] = [start |-> now, count |-> 1]
    /\ \A k \in Keys \ {getRateLimitKey(reqs[s])} : rateLimitMap[k] = NoRecord
    /\ edge[s].rateCheck.allowed

(***************************************************************************)
(* C4.  A POST whose parsed payload has no array-valued messages field     *)
(* (messages missing or not an array, or a payload that is not an object)  *)
(* is answered with status 400, whatever its other fields, the rate-limit  *)
(* state and the credential.                                               *)
(***************************************************************************)
C4_NoMessagesIs400 ==
  \A s \in DOMAIN edge :
    (reqs[s].method = "POST" /\ LacksMessages(reqs[s].body))
      => /\ Ended(edge[s]) => Answered(edge[s], 400)
         /\ Ended(sl[s]) => Answered(sl[s], 400)

(***************************************************************************)
(* C5.  When the upstream call of a POST rejects, the response is exactly  *)
(* status 502 with the body {error: "Failed to reach AI service"}.         *)
(***************************************************************************)
C5_RejectIs502 ==
  \A s \in DOMAIN edge :
    ups[s].kind = "reject" =>
      /\ edge[s].call.issued =>
           /\ Answered(edge[s], 502)
           /\ edge[s].sent[1].body
                = ErrorBody(JStr(<<"Failed to reach AI service">>))
      /\ sl[s].call.issued =>
           /\ Answered(sl[s], 502)
           /\ sl[s].sent[1].body
                = ErrorBody(JStr(<<"Failed to reach AI service">>))

\* Both variants have made an upstream call that rejected.
C5_Witness ==
  \E s \in DOMAIN edge :
    /\ ups[s].kind = "reject"
    /\ edge[s].call.issued /\ Ended(edge[s])
    /\ sl[s].call.issued /\ Ended(sl[s])

(***************************************************************************)
(* C6.  An OPTIONS request is answered with status 204 and no body in      *)
(* every state: whether or not its key is over the limit and whether or    *)
(* not a credential is configured.                                         *)
(***************************************************************************)
C6_OptionsIs204 ==
  \A s \in DOMAIN edge :
    reqs[s].method = "OPTIONS" =>
      /\ Answered(edge[s], 204) /\ ~edge[s].sent[1].body.json
      /\ Answered(sl[s], 204) /\ ~sl[s].sent[1].body.json

\* A preflight has been answered while its key is at the limit in an
\* unexpired window and no credential is configured.
C6_Witness ==
  \E s \in DOMAIN edge :
    /\ reqs[s].method = "OPTIONS"
    /\ Ended(edge[s])
    /\ rateLimitMap[getRateLimitKey(reqs[s])].count >= RATE_LIMIT
    /\ now - rateLimitMap[getRateLimitKey(reqs[s])].windowStart
         <= RATE_WINDOW * 1000
    /\ ~Truthy(env)

(***************************************************************************)
(* C7.  Every request handled produces exactly one response, and every     *)
(* response that is not 2xx has a JSON body with an error field: a handler *)
(* that has not ended has sent nothing, and one that has ended has sent    *)
(* exactly one response.                                                   *)
(***************************************************************************)
OneResponse(h) ==
  /\ ~Ended(h) => h.sent = << >>
  /\ Ended(h) =>
       /\ Len(h.sent) = 1
       /\ ~ok(h.sent[1].status) =>
            h.sent[1].body.json /\ h.sent[1].body.error.t = "string"

C7_ExactlyOneResponse ==
  \A s \in DOMAIN edge : OneResponse(edge[s]) /\ OneResponse(sl[s])

(***************************************************************************)
(* C8.  Access-Control-Allow-Origin of every response is the wildcard or   *)
(* an allow-listed origin (the site, or an extension's origin); no other   *)
(* Origin is echoed back, in particular none that merely starts with the   *)
(* site's origin.                                                          *)
(***************************************************************************)
AllowListed(o) ==
  \/ o = <<"https://www.propertyfinder.ae">>
  \/ (Len(o) = 2 /\ o[1] = "chrome-extension://")

C8_AllowOriginIsAllowListed ==
  \A s \in DOMAIN edge :
    /\ \A i \in 1 .. Len(edge[s].sent) :
         \/ edge[s].sent[i].headers.allowOrigin = <<"*">>
         \/ AllowListed(edge[s].sent[i].headers.allowOrigin)
    /\ \A i \in 1 .. Len(sl[s].sent) :
         \/ sl[s].sent[i].headers.allowOrigin = <<"*">>
         \/ AllowListed(sl[s].sent[i].headers.allowOrigin)

(***************************************************************************)
(* C9.  When the upstream call completes with a status s that is not ok,   *)
(* the response has status s and its error field is the message of the     *)
(* upstream body's error when the body parses and has one, and a generic   *)
(* message otherwise.                                                      *)
(***************************************************************************)
\* The message the upstream body carries, if it parses and carries one.
CarriedMessage(u) ==
  IF u.body.json = "object" /\ u.body.error.t = "object"
     /\ u.body.error.message.t = "string" /\ u.body.error.message.s # << >>
  THEN u.body.error.message ELSE JUndef

UpstreamStatusSurfaced(h, u, generic) ==
  (h.call.issued /\ Ended(h)) =>
    /\ Answered(h, u.status)
    /\ h.sent[1].body.error
         = (IF CarriedMessage(u) # JUndef THEN CarriedMessage(u) ELSE generic)

C9_UpstreamStatusPassedThrough ==
  \A s \in DOMAIN edge :
    (ups[s].kind = "response" /\ ~ok(ups[s].status)) =>
      /\ UpstreamStatusSurfaced(edge[s], ups[s],
           JStr(<<"OpenAI error: ", ToString(ups[s].status)>>))
      /\ UpstreamStatusSurfaced(sl[s], ups[s], JStr(<<"OpenAI error">>))

(***************************************************************************)
(* C10.  In the body of the upstream call, model, max_tokens and           *)
(* temperature are the request's values whenever the request has the       *)
(* field, a value of zero included, and the defaults only when it has not; *)
(* messages is passed through.                                             *)
(***************************************************************************)
SuppliedOr(field, default) == IF field.t # "undefined" THEN field ELSE default

C10_SuppliedFieldsForwarded ==
  \A s \in DOMAIN edge :
    /\ edge[s].call.issued =>
         /\ edge[s].call.model = SuppliedOr(reqs[s].body.model, JStr(<<"gpt-4o-mini">>))
         /\ edge[s].call.max_tokens = SuppliedOr(reqs[s].body.max_tokens, JNum(1500))
         /\ edge[s].call.temperature = SuppliedOr(reqs[s].body.temperature, JNum(85))
         /\ edge[s].call.messages = reqs[s].body.messages
    /\ sl[s].call.issued =>
         /\ sl[s].call.model = SuppliedOr(reqs[s].body.model, JStr(<<"gpt-4o-mini">>))
         /\ sl[s].call.max_tokens = SuppliedOr(reqs[s].body.max_tokens, JNum(2500))
         /\ sl[s].call.temperature = SuppliedOr(reqs[s].body.temperature, JNum(85))
         /\ sl[s].call.messages = reqs[s].body.messages

(***************************************************************************)
(* C11.  The credential is never exposed to clients.  It appears in the    *)
(* Authorization header of the upstream call and in no response; and what  *)
(* a handler does does not depend on which secret is configured: every     *)
(* step of a handler leaves it, the Authorization header of its call       *)
(* aside, as the same step would with another secret, so two runs that     *)
(* differ in the secret alone send the same responses.                     *)
(***************************************************************************)
OtherSecret == JStr(<<"sk-B">>)

\* The configuration of the other run: another secret where there is one.
Swapped(e) == IF Truthy(e) THEN OtherSecret ELSE e

\* A handler with the Authorization header of its call hidden, and with the
\* header the other run has sent.
Masked(h) == [h EXCEPT !.call.authorization = << >>]
InOtherRun(h) ==
  [h EXCEPT !.call.authorization =
              IF h.call.issued THEN <<"Bearer ">> \o OtherSecret.s ELSE @]

\* The characters of the secret occur in the string.
Mentions(str, e) == \E i \in 1 .. Len(str), j \in 1 .. Len(e.s) : str[i] = e.s[j]

Exposes(h, e) ==
  \E i \in 1 .. Len(h.sent) :
    \/ Mentions(h.sent[i].body.error.s, e)
    \/ Mentions(h.sent[i].body.content.s, e)
    \/ Mentions(h.sent[i].headers.allowOrigin, e)
    \/ Mentions(h.sent[i].headers.contentType.s, e)
    \/ Mentions(h.sent[i].headers.retryAfter.s, e)

C11_CredentialNotExposed ==
  [][\A s \in DOMAIN edge :
       /\ ~Exposes(edge'[s], env) /\ ~Exposes(sl'[s], env)
       /\ edge'[s].call.issued => edge'[s].call.authorization = <<"Bearer ">> \o env.s
       /\ sl'[s].call.issued => sl'[s].call.authorization = <<"Bearer ">> \o env.s
       /\ \* a request arrives
          reqs'[s].id # reqs[s].id =>
            /\ Masked(edge'[s])
                 = Masked(handlerStart(reqs'[s], rateLimitMap, now).h)
            /\ Masked(sl'[s])
                 = Masked(sl_handlerStart(reqs'[s], sl_rateLimitMap, now,
                                          Swapped(env)).h)
            /\ sl_rateLimitMap'
                 = sl_handlerStart(reqs'[s], sl_rateLimitMap, now, Swapped(env)).map
       /\ \* await req.json() ends
          (edge[s].pc = "json" /\ reqs'[s].id = reqs[s].id /\ edge'[s].pc # "json") =>
            Masked(edge'[s]) = Masked(handlerParsed(edge[s], reqs[s], Swapped(env)))
       /\ \* await fetch(...) ends
          (edge[s].pc = "fetch" /\ reqs'[s].id = reqs[s].id /\ edge'[s].pc # "fetch") =>
            Masked(edge'[s]) = Masked(handlerUpstream(InOtherRun(edge[s]), ups'[s]))
       /\ (sl[s].pc = "fetch" /\ reqs'[s].id = reqs[s].id /\ sl'[s].pc # "fetch") =>
            Masked(sl'[s]) = Masked(sl_handlerUpstream(InOtherRun(sl[s]), ups'[s]))
    ]_vars

\* With a secret configured, both variants have made their upstream call
\* and have answered an upstream error that carries no message.
C11_Witness ==
  \E s \in DOMAIN edge :
    /\ Truthy(env)
    /\ edge[s].call.issued /\ edge[s].call.authorization = <<"Bearer ">> \o env.s
    /\ sl[s].call.issued /\ Ended(sl[s])
    /\ ups[s].kind = "response" /\ ~ok(ups[s].status)
    /\ ups[s].body.json = "invalid"
    /\ Answered(edge[s], ups[s].status)

(***************************************************************************)
(* C12.  A POST that passes the rate limit check, has an array-valued      *)
(* messages field and a configured credential, and whose upstream call     *)
(* answers ok with a first choice whose message has the content c, is      *)
(* answered 200 with content = c; chat.js also reports remaining, the      *)
(* value its own rate limit check returned.                                *)
(***************************************************************************)
HasContent(u) ==
  /\ u.kind = "response" /\ ok(u.status) /\ u.body.json = "object"
  /\ u.body.choices.present /\ u.body.choices.items # << >>
  /\ u.body.choices.items[1].hasMessage
  /\ u.body.choices.items[1].content.t = "string"

C12_SuccessIs200WithContent ==
  \A s \in DOMAIN edge :
    HasContent(ups[s]) =>
      /\ edge[s].call.issued =>
           /\ Answered(edge[s], 200)
           /\ edge[s].sent[1].body.content = ups[s].body.choices.items[1].content
           /\ edge[s].rateCheck.allowed
           /\ edge[s].sent[1].body.remaining = JNum(edge[s].rateCheck.remaining)
           /\ edge[s].sent[1].body.error = JUndef
      /\ sl[s].call.issued =>
           /\ Answered(sl[s], 200)
           /\ sl[s].sent[1].body.content = ups[s].body.choices.items[1].content
           /\ sl[s].sent[1].body.error = JUndef

\* Both variants have answered an upstream success, chat.js on the last
\* request its key's window allows.
C12_Witness ==
  \E s \in DOMAIN edge :
    /\ HasContent(ups[s])
    /\ Answered(edge[s], 200) /\ Answered(sl[s], 200)
    /\ edge[s].sent[1].body.remaining = JNum(0)

(***************************************************************************)
(* C15.  Each request issues at most one upstream call and never retries   *)
(* it: once the call is made, the next step of the handler ends it.  A     *)
(* request that is answered 204 (OPTIONS), 405 (wrong method), 429 (rate   *)
(* limited), 400 (invalid JSON or messages) or 500 (no credential) has     *)
(* issued no upstream call.                                                *)
(***************************************************************************)
NoUpstreamCall(h) == h.calls = 0 /\ ~h.call.issued

\* From one step of the handler of a request to its next: the call is made
\* at most once, and it is not made again.
OneCall(h, hNext, sameRequest) ==
  /\ hNext.calls <= 1
  /\ hNext.call.issued <=> hNext.calls = 1
  /\ (sameRequest /\ h.calls = 1) =>
       /\ hNext.calls = 1 /\ hNext.call = h.call
       /\ hNext = h \/ Ended(hNext)

C15_AtMostOneUpstreamCall ==
  [][\A s \in DOMAIN edge :
       /\ OneCall(edge[s], edge'[s], reqs'[s].id = reqs[s].id)
       /\ OneCall(sl[s], sl'[s], reqs'[s].id = reqs[s].id)
       /\ \* 204 and 405
          \A h \in {edge'[s], sl'[s]} :
            /\ (reqs'[s].method = "OPTIONS" /\ Answered(h, 204)) => NoUpstreamCall(h)
            /\ (reqs'[s].method \notin {"OPTIONS", "POST"} /\ Answered(h, 405))
                 => NoUpstreamCall(h)
       /\ \* 429
          (Answered(edge'[s], 429) /\ ~edge'[s].rateCheck.allowed)
            => NoUpstreamCall(edge'[s])
       /\ ( /\ PostArrives(s)
            /\ ~sl_checkRateLimit(sl_rateLimitMap, sl_ip(reqs'[s]), now).result )
            => Answered(sl'[s], 429) /\ NoUpstreamCall(sl'[s])
       /\ \* 400
          (Answered(edge'[s], 400)
             /\ (reqs'[s].body.json = "invalid" \/ LacksMessages(reqs'[s].body)))
            => NoUpstreamCall(edge'[s])
       /\ (Answered(sl'[s], 400) /\ ~isArray(sl_fields(reqs'[s]).messages))
            => NoUpstreamCall(sl'[s])
       /\ \* 500
          \A h \in {edge'[s], sl'[s]} :
            (Answered(h, 500) /\ ~Truthy(env)) => NoUpstreamCall(h)
       /\ \* the call is made for an allowed POST with messages and a credential
          edge'[s].calls = 1 =>
            /\ reqs'[s].method = "POST" /\ edge'[s].rateCheck.allowed
            /\ isArray(reqs'[s].body.messages) /\ Truthy(env)
       /\ sl'[s].calls = 1 =>
            /\ reqs'[s].method = "POST"
            /\ isArray(sl_fields(reqs'[s]).messages) /\ Truthy(env)
    ]_vars

\* fetch(...) has rejected for the second request, and both variants have
\* answered 502 after their one call.
C15_Witness ==
  \E s \in DOMAIN edge :
    /\ reqs[s].id >= 2
    /\ ups[s].kind = "reject"
    /\ Answered(edge[s], 502) /\ edge[s].calls = 1
    /\ Answered(sl[s], 502) /\ sl[s].calls = 1

(***************************************************************************)
(* C17.  A request is counted against the quota of its key exactly when    *)
(* it is a POST that the rate limiter allows: its arrival adds one to the  *)
(* count of the key's window, or opens a window with count 1, and nothing  *)
(* the handler does afterwards (its 400, 500, 502 or upstream error        *)
(* status) changes a record.  A denied POST, an OPTIONS and any other      *)
(* method leave both maps as they are.                                     *)
(***************************************************************************)
\* The record of key k in map m counts one request more in mNext, and no
\* other record differs.
CountedOnce(m, mNext, k, start) ==
  /\ \A other \in DOMAIN m \ {k} : mNext[other] = m[other]
  /\ \/ mNext[k].count = m[k].count + 1 /\ mNext[k][start] = m[k][start]
     \/ mNext[k].count = 1 /\ mNext[k][start] = now
  /\ mNext # m

C17_CountedWhenAllowedPost ==
  [][\A s \in DOMAIN edge :
       /\ \* chat.js
          IF PostArrives(s) /\ edge'[s].rateCheck.allowed
          THEN CountedOnce(rateLimitMap, rateLimitMap',
                           getRateLimitKey(reqs'[s]), "windowStart")
          ELSE rateLimitMap' = rateLimitMap
       /\ \* part_000, whose only 429 on arrival is the rate limiter's
          IF PostArrives(s) /\ ~Answered(sl'[s], 429)
          THEN CountedOnce(sl_rateLimitMap, sl_rateLimitMap',
                           sl_ip(reqs'[s]), "start")
          ELSE sl_rateLimitMap' = sl_rateLimitMap
       /\ \* the handler ends with an error status: the request stays counted
          ( /\ reqs'[s].id = reqs[s].id /\ reqs[s].method = "POST"
            /\ Running(edge[s]) /\ Ended(edge'[s]) )
            => /\ rateLimitMap'[getRateLimitKey(reqs[s])].count >= 1
               /\ rateLimitMap' = rateLimitMap
    ]_vars

\* Every request so far was an allowed POST of one key and the last of them
\* was answered 400 by both variants: the quota is used up all the same.
C17_Witness ==
  \E s \in DOMAIN edge :
    /\ arrived = RATE_LIMIT
    /\ reqs[s].method = "POST"
    /\ Answered(edge[s], 400) /\ Answered(sl[s], 400)
    /\ rateLimitMap[getRateLimitKey(reqs[s])].count = RATE_LIMIT
    /\ sl_rateLimitMap[sl_ip(reqs[s])].count = sl_RATE_LIMIT

(***************************************************************************)
(* C19.  The two variants implement the same contract: given the same      *)
(* limit and window duration and the same requests, arrival times,         *)
(* credential and upstream outcomes, they keep equal counts and window     *)
(* starts for every key, and they answer every request with the same       *)
(* status code.                                                            *)
(***************************************************************************)
SameRecords ==
  \A k \in DOMAIN rateLimitMap :
    /\ rateLimitMap[k].count = sl_rateLimitMap[k].count
    /\ rateLimitMap[k].windowStart = sl_rateLimitMap[k].start

SameStatus(s) ==
  (~Running(edge[s]) /\ ~Running(sl[s]) /\ reqs[s].id > 0) =>
    /\ Len(edge[s].sent) = 1 /\ Len(sl[s].sent) = 1
    /\ edge[s].sent[1].status = sl[s].sent[1].status

C19_VariantsAgree ==
  /\ sl_RATE_LIMIT = RATE_LIMIT /\ sl_RATE_WINDOW = RATE_WINDOW * 1000
  /\ SameRecords
  /\ \A s \in DOMAIN edge : SameStatus(s)

(***************************************************************************)
(* C14.  For any key and any sequence of calls at non-decreasing times,    *)
(* the calls that are allowed inside a time interval no longer than the    *)
(* window duration are at most 2 x RATE_LIMIT (in both variants).          *)
(***************************************************************************)
\* The calls i..j of log that were made for the key of call i and allowed.
AllowedAmong(i, j) ==
  {c \in i .. j : log[c].key = log[i].key /\ log[c].allowed}
sl_AllowedAmong(i, j) ==
  {c \in i .. j : log[c].sl_ip = log[i].sl_ip /\ log[c].sl_allowed}

C14_AtMostTwiceTheLimit ==
  \A i \in 1 .. Len(log), j \in 1 .. Len(log) :
    (i <= j /\ log[i].t <= log[j].t /\ log[j].t - log[i].t <= RATE_WINDOW * 1000) =>
      /\ Cardinality(AllowedAmong(i, j)) <= 2 * RATE_LIMIT
      /\ Cardinality(sl_AllowedAmong(i, j)) <= 2 * sl_RATE_LIMIT

\* A burst across a window boundary.  The first call of a window is made
\* at its start and the next window opens more than a window duration
\* later, so the most an interval shorter than the window holds is the
\* other RATE_LIMIT - 1 calls of one window and the RATE_LIMIT calls of the
\* next: that many were allowed, and the call after them, still inside the
\* interval, was denied by both variants.
C14_Witness ==
  \E i \in 1 .. Len(log), j \in 1 .. Len(log) :
    /\ i < j /\ log[j].t - log[i].t < RATE_WINDOW * 1000
    /\ Cardinality(AllowedAmong(i, j)) = 2 * RATE_LIMIT - 1
    /\ Cardinality(sl_AllowedAmong(i, j)) = 2 * sl_RATE_LIMIT - 1
    /\ ~log[j].allowed /\ ~log[j].sl_allowed

(***************************************************************************)
(* C16.  Retry-After is honoured: when a POST of a key is denied with      *)
(* resetIn = r and the next request of that key is a POST that arrives     *)
(* exactly r seconds later, the rate limiter allows it.                    *)
(***************************************************************************)
C16_RetryAfterHonoured ==
  \A i \in 1 .. Len(log) - 1 :
    ( /\ ~log[i].allowed
      /\ log[i + 1].key = log[i].key
      /\ log[i + 1].t = log[i].t + 1000 * log[i].resetIn.n )
      => log[i + 1].allowed

(***************************************************************************)
(* C18.  checkRateLimit(key) changes at most the record of key: the        *)
(* records of all other keys are as they were before the call, and a call  *)
(* that is denied leaves the whole map as it was, the count and the window *)
(* start of the denied key included (in both variants).                    *)
(***************************************************************************)
OthersUnchanged(m, mNext, k) == \A other \in DOMAIN m \ {k} : mNext[other] = m[other]

C18_OnlyOwnRecordChanges ==
  [][\A s \in DOMAIN edge :
       PostArrives(s) =>
         /\ DOMAIN rateLimitMap' = DOMAIN rateLimitMap
         /\ OthersUnchanged(rateLimitMap, rateLimitMap', getRateLimitKey(reqs'[s]))
         /\ ~edge'[s].rateCheck.allowed => rateLimitMap' = rateLimitMap
         /\ DOMAIN sl_rateLimitMap' = DOMAIN sl_rateLimitMap
         /\ OthersUnchanged(sl_rateLimitMap, sl_rateLimitMap', sl_ip(reqs'[s]))
         /\ Answered(sl'[s], 429) => sl_rateLimitMap' = sl_rateLimitMap
    ]_vars

\* A POST was denied by both variants, later than its key's window start,
\* while both maps hold the record of another key.
C18_Witness ==
  \E s \in DOMAIN edge :
    /\ reqs[s].method = "POST"
    /\ ~edge[s].rateCheck.allowed /\ Answered(edge[s], 429) /\ Answered(sl[s], 429)
    /\ now > rateLimitMap[getRateLimitKey(reqs[s])].windowStart
    /\ \E k \in DOMAIN rateLimitMap \ {getRateLimitKey(reqs[s])} :
         rateLimitMap[k].count >= 1
    /\ \E k \in DOMAIN sl_rateLimitMap \ {sl_ip(reqs[s])} :
         sl_rateLimitMap[k].count >= 1

(***************************************************************************)
(* C13.  Under every interleaving of requests in flight at once, the       *)
(* check and the increment of a rate limit record are one atomic step:     *)
(* every record has 1 <= count <= RATE_LIMIT, and its count is the number  *)
(* of requests of its key that were allowed since its window start, so     *)
(* that no window allows more than RATE_LIMIT requests of a key.           *)
(***************************************************************************)
AllowedSince(k, start) ==
  {c \in 1 .. Len(log) : log[c].key = k /\ log[c].allowed /\ log[c].t >= start}
sl_AllowedSince(k, start) ==
  {c \in 1 .. Len(log) : log[c].sl_ip = k /\ log[c].sl_allowed /\ log[c].t >= start}

C13_CountIsAllowedInWindow ==
  /\ \A k \in DOMAIN rateLimitMap :
       IF rateLimitMap[k] = NoRecord
       THEN \A c \in 1 .. Len(log) : log[c].key # k
       ELSE /\ 1 <= rateLimitMap[k].count /\ rateLimitMap[k].count <= RATE_LIMIT
            /\ rateLimitMap[k].count
                 = Cardinality(AllowedSince(k, rateLimitMap[k].windowStart))
  /\ \A k \in DOMAIN sl_rateLimitMap :
       IF sl_rateLimitMap[k] = sl_NoRecord
       THEN \A c \in 1 .. Len(log) : log[c].sl_ip # k
       ELSE /\ 1 <= sl_rateLimitMap[k].count
            /\ sl_rateLimitMap[k].count <= sl_RATE_LIMIT
            /\ sl_rateLimitMap[k].count
                 = Cardinality(sl_AllowedSince(k, sl_rateLimitMap[k].start))

\* Both variants denied the request of slot 2 on a full window while the
\* request of slot 1, made before it, is still suspended at an await.
C13_Witness ==
  /\ DOMAIN edge = {1, 2}
  /\ Running(edge[1]) /\ Running(sl[1])
  /\ reqs[1].id < reqs[2].id
  /\ ~edge[2].rateCheck.allowed /\ Answered(edge[2], 429) /\ Answered(sl[2], 429)
  /\ rateLimitMap[getRateLimitKey(reqs[2])].count = RATE_LIMIT
  /\ Cardinality(AllowedSince(getRateLimitKey(reqs[2]),
                              rateLimitMap[getRateLimitKey(reqs[2])].windowStart))
       = RATE_LIMIT

====
